---- MODULE Spec2Model ----
(***************************************************************************)
(* Model of the NTPSync class of src/src/index.ts: a bounded history of    *)
(* clock offsets and errors, a round-robin failover cursor over a fixed    *)
(* server list, and sync attempts (getDelta, syncTime) that suspend at the *)
(* provider call and may therefore overlap in flight.                      *)
(***************************************************************************)
EXTENDS Integers, Sequences, FiniteSets, TLC

\* ---------------------------------------------------------------- bounds
MaxServers == 2        \* longest configured server list
MaxLimit == 2          \* largest configured history limit
MaxAttempts == 3       \* attempts started over the life of one engine
MaxClock == 1          \* Date.now() reads are drawn from 0..MaxClock
MaxSamples == 3        \* longest deltas array getTime is applied to
MaxObserved == 1       \* attempts started in a run that also makes queries

\* ---------------------------------------------------------------- inputs
\* A configured server {server, port}; the host is abstracted to its rank.
ServerList(n) == [i \in 1..n |-> [server |-> i, port |-> 123]]

\* Remote timestamps the provider may answer with (ntpDate.getTime()).
NtpTimes == {10}

\* What the provider may reject with.
Causes == {"timeout"}

\* Values Date.now() may return; the wall clock is an input, not kept state.
Times == 0..MaxClock

\* Offsets (dt) of the samples getTime is applied to.
Offsets == {-50, -3, -2, 30, 100}

Null == <<>>
Some(x) == <<x>>

VARIABLES
  ntpServers,      \* this.ntpServers
  limit,           \* this.limit
  currentIndex,    \* this.currentIndex (0-based)
  tickId,          \* this.tickId: 0 is null, 1 the interval handle
  historyDetails,  \* this.historyDetails
  calls,           \* the getDelta / syncTime invocations in flight, start order
  settled,         \* how the call that completed last settled for its caller
  started,         \* log: number of invocations started so far
  rejections,      \* log: number of provider calls rejected so far
  syncTimeDone,    \* log: number of syncTime invocations completed so far
  pushedDeltas,    \* log: every item ever pushed into deltas, in order
  pushedErrors,    \* log: every item ever pushed into errors, in order
  queriedServers,  \* log: the servers handed to the provider so far
  timers,          \* number of intervals setInterval has created
  reply            \* what the last getTime / getHistory / startTick call gave

vars == <<ntpServers, limit, currentIndex, tickId, historyDetails, calls,
          settled, started, rejections, syncTimeDone, pushedDeltas,
          pushedErrors, queriedServers, timers, reply>>

\* ---------------------------------------------------------------- helpers
\* Variant of ServerAt: always the first server of the list.
ServerAtFirst(idx) == ntpServers[1]

\* this.ntpServers[this.currentIndex]
ServerAt(idx) == ntpServers[idx + 1]

\* new NtpClientError(err, fetchingServer): the wrapped failure carries the
\* original cause and the server handed to it.
NtpClientError(cause, server) == [cause |-> cause, server |-> server]

\* Array.prototype.shift: drops the head; a no-op on an empty array.
Shift(q) == IF Len(q) = 0 THEN q ELSE Tail(q)

\* computeAndUpdate lines 58-64: if (deltas.length === limit) shift(); push
PushDelta(deltas, item) ==
  IF Len(deltas) = limit
    THEN Append(Shift(deltas), item)
    ELSE Append(deltas, item)

\* syncTime lines 133-136: if (errors.length === limit) shift(); push
PushErrorNoEvict(errors, ed) == Append(errors, ed)
PushErrorEvictNewest(errors, ed) ==
  IF Len(errors) = limit /\ Len(errors) > 0
    THEN Append(SubSeq(errors, 1, Len(errors) - 1), ed)
    ELSE Append(errors, ed)
PushError(errors, ed) ==
  IF Len(errors) = limit
    THEN Append(Shift(errors), ed)
    ELSE Append(errors, ed)

\* Math.max of two numbers
maxKeepsFirst(a, b) == a
max(a, b) == IF a >= b THEN a ELSE b

\* shiftServer lines 104-107: the index arithmetic
NextIndexOffByOne(idx, n) == IF n > 2 THEN (idx + 1) % n ELSE idx
NextIndex(idx, n) == IF n > 1 THEN (idx + 1) % n ELSE idx

\* ------------------------------------------------------- starting a call
\* getDelta up to its await: snapshot currentServer (fetchingServer), hand the
\* provider the current server's host and port (queried).  kind is the
\* public method invoked, by is who invoked it, thrown the error getDelta
\* threw into an awaiting syncTime.
NewCall(kind, by, hd) ==
  [kind |-> kind, by |-> by, pc |-> "provider",
   fetchingServer |-> hd.currentServer,
   queried |-> hd.currentServer,
   thrown |-> Null]

\* What the caller of a completed call sees: the promise of getDelta or
\* syncTime fulfilled ("returned") or rejected ("raised") with value.
Settlement(c, status, value) ==
  [kind |-> c.kind, status |-> status, value |-> value]

\* The calls still in flight once call i has completed.
Remove(cs, i) == SubSeq(cs, 1, i - 1) \o SubSeq(cs, i + 1, Len(cs))

\* Variant of startTick: a new interval on every call.
startTickUnguarded(tid) == tid + 1

\* startTick: if (!this.tickId) this.tickId = setInterval(...)
startTick(tid) == IF tid = 0 THEN 1 ELSE tid

\* --------------------------------------------------------------- getTime
\* deltas.reduce((a, b) => a + b.dt, 0)
RECURSIVE SumDt(_)
SumDt(deltas) ==
  IF Len(deltas) = 0 THEN 0 ELSE deltas[1].dt + SumDt(Tail(deltas))

\* Math.round(sum / n) || 0: the nearest integer, a tie going up; 0 / 0 is
\* NaN, which `|| 0` turns into 0.
JsRoundTruncates(sum, n) ==
  IF n = 0 THEN 0
  ELSE IF sum >= 0 THEN sum \div n ELSE -((-sum) \div n)
JsRound(sum, n) ==
  IF n = 0 THEN 0 ELSE (2 * sum + n) \div (2 * n)

\* getTime(): Date.now() + avg
getTime(hd, now) == now + JsRound(SumDt(hd.deltas), Len(hd.deltas))

\* ------------------------------------------------------------ getHistory
\* JSON text of a number: an optional minus sign and decimal digits.
Digits == <<"0", "1", "2", "3", "4", "5", "6", "7", "8", "9">>

RECURSIVE NatToText(_)
NatToText(n) ==
  IF n < 10 THEN <<Digits[n + 1]>>
  ELSE Append(NatToText(n \div 10), Digits[(n % 10) + 1])

NumToText(n) == IF n < 0 THEN <<"-">> \o NatToText(-n) ELSE NatToText(n)

DigitValue(ch) == CHOOSE d \in 0..9 : Digits[d + 1] = ch

RECURSIVE TextToNat(_)
TextToNat(t) ==
  IF Len(t) = 0 THEN 0
  ELSE 10 * TextToNat(SubSeq(t, 1, Len(t) - 1)) + DigitValue(t[Len(t)])

TextToNum(t) == IF t[1] = "-" THEN -TextToNat(Tail(t)) ELSE TextToNat(t)

\* JSON.stringify of a server, an error record, a nullable number.
ServerToJson(sv) ==
  [server |-> NumToText(sv.server), port |-> NumToText(sv.port)]
ErrorToJson(ed) ==
  [error |-> ed.error, server |-> ServerToJson(ed.server),
   time |-> NumToText(ed.time)]
NullableNumToJson(x) ==
  IF x = Null THEN [json |-> "null"]
  ELSE [json |-> "number", text |-> NumToText(x[1])]

\* JSON.stringify(this.historyDetails)
JsonStringify(hd) ==
  [currentConsecutiveErrorCount |-> NumToText(hd.currentConsecutiveErrorCount),
   currentServer |-> ServerToJson(hd.currentServer),
   deltas |-> [j \in 1..Len(hd.deltas) |->
                 [dt |-> NumToText(hd.deltas[j].dt),
                  ntp |-> NumToText(hd.deltas[j].ntp)]],
   errors |-> [j \in 1..Len(hd.errors) |-> ErrorToJson(hd.errors[j])],
   isInErrorState |-> IF hd.isInErrorState THEN "true" ELSE "false",
   lastSyncTime |-> NullableNumToJson(hd.lastSyncTime),
   lastNtpTime |-> NullableNumToJson(hd.lastNtpTime),
   lastError |-> IF hd.lastError = Null THEN [json |-> "null"]
                 ELSE [json |-> "object",
                       text |-> ErrorToJson(hd.lastError[1])],
   lifetimeErrorCount |-> NumToText(hd.lifetimeErrorCount),
   maxConsecutiveErrorCount |-> NumToText(hd.maxConsecutiveErrorCount)]

\* JSON.parse of the same.
JsonToServer(t) ==
  [server |-> TextToNum(t.server), port |-> TextToNum(t.port)]
JsonToError(t) ==
  [error |-> t.error, server |-> JsonToServer(t.server),
   time |-> TextToNum(t.time)]
JsonToNullableNum(t) ==
  IF t.json = "null" THEN Null ELSE Some(TextToNum(t.text))

JsonParse(t) ==
  [currentConsecutiveErrorCount |-> TextToNum(t.currentConsecutiveErrorCount),
   currentServer |-> JsonToServer(t.currentServer),
   deltas |-> [j \in 1..Len(t.deltas) |->
                 [dt |-> TextToNum(t.deltas[j].dt),
                  ntp |-> TextToNum(t.deltas[j].ntp)]],
   errors |-> [j \in 1..Len(t.errors) |-> JsonToError(t.errors[j])],
   isInErrorState |-> t.isInErrorState = "true",
   lastSyncTime |-> JsonToNullableNum(t.lastSyncTime),
   lastNtpTime |-> JsonToNullableNum(t.lastNtpTime),
   lastError |-> IF t.lastError.json = "null" THEN Null
                 ELSE Some(JsonToError(t.lastError.text)),
   lifetimeErrorCount |-> TextToNum(t.lifetimeErrorCount),
   maxConsecutiveErrorCount |-> TextToNum(t.maxConsecutiveErrorCount)]

\* getHistory(): JSON.parse(JSON.stringify(this.historyDetails))
getHistory(hd) == JsonParse(JsonStringify(hd))

\* What a caller writes into a history object it was handed.
Scribble(hd) ==
  [hd EXCEPT !.deltas = <<>>, !.errors = <<>>, !.lifetimeErrorCount = -1]

\* ------------------------------------------------------------------ Init
\* The state the constructor leaves: fields set from the configuration, the
\* creation-time syncTime() suspended at the provider when syncOnCreation,
\* the interval armed when autoSync.
Init ==
  \E n \in 1..MaxServers, history \in 0..MaxLimit,
     syncOnCreation \in BOOLEAN, autoSync \in BOOLEAN :
    LET hd0 == [currentConsecutiveErrorCount |-> 0,
                currentServer |-> ServerList(n)[1],
                deltas |-> <<>>,
                errors |-> <<>>,
                isInErrorState |-> FALSE,
                lastSyncTime |-> Null,
                lastNtpTime |-> Null,
                lastError |-> Null,
                lifetimeErrorCount |-> 0,
                maxConsecutiveErrorCount |-> 0]
    IN /\ ntpServers = ServerList(n)
       /\ limit = history
       /\ currentIndex = 0
       /\ historyDetails = hd0
       /\ calls = IF syncOnCreation
                    THEN <<NewCall("syncTime", "ctor", hd0)>>
                    ELSE <<>>
       /\ started = IF syncOnCreation THEN 1 ELSE 0
       /\ tickId = IF autoSync THEN startTick(0) ELSE 0
       /\ settled = Null
       /\ rejections = 0
       /\ syncTimeDone = 0
       /\ pushedDeltas = <<>>
       /\ pushedErrors = <<>>
       /\ queriedServers = IF syncOnCreation THEN {ServerList(n)[1]} ELSE {}
       /\ timers = IF autoSync THEN 1 ELSE 0
       /\ reply = Null

\* --------------------------------------------------------------- actions
\* A caller invokes getDelta().
CallGetDelta ==
  /\ started < MaxAttempts
  /\ started' = started + 1
  /\ calls' = Append(calls, NewCall("getDelta", "manual", historyDetails))
  /\ queriedServers' = queriedServers \cup {historyDetails.currentServer}
  /\ UNCHANGED <<ntpServers, limit, currentIndex, tickId, historyDetails,
                 settled, rejections, syncTimeDone, pushedDeltas,
                 pushedErrors, timers, reply>>

\* A caller invokes syncTime().
CallSyncTime ==
  /\ started < MaxAttempts
  /\ started' = started + 1
  /\ calls' = Append(calls, NewCall("syncTime", "manual", historyDetails))
  /\ queriedServers' = queriedServers \cup {historyDetails.currentServer}
  /\ UNCHANGED <<ntpServers, limit, currentIndex, tickId, historyDetails,
                 settled, rejections, syncTimeDone, pushedDeltas,
                 pushedErrors, timers, reply>>

\* Variant of Tick: the interval stops firing once the engine is in its
\* error state.
TickUnlessError ==
  /\ tickId # 0
  /\ ~historyDetails.isInErrorState
  /\ started < MaxAttempts
  /\ started' = started + 1
  /\ calls' = Append(calls, NewCall("syncTime", "tick", historyDetails))
  /\ queriedServers' = queriedServers \cup {historyDetails.currentServer}
  /\ UNCHANGED <<ntpServers, limit, currentIndex, tickId, historyDetails,
                 settled, rejections, syncTimeDone, pushedDeltas,
                 pushedErrors, timers, reply>>

\* The interval fires: () => this.syncTime().
Tick ==
  /\ tickId # 0
  /\ started < MaxAttempts
  /\ started' = started + 1
  /\ calls' = Append(calls, NewCall("syncTime", "tick", historyDetails))
  /\ queriedServers' = queriedServers \cup {historyDetails.currentServer}
  /\ UNCHANGED <<ntpServers, limit, currentIndex, tickId, historyDetails,
                 settled, rejections, syncTimeDone, pushedDeltas,
                 pushedErrors, timers, reply>>

\* The provider answers call i with ntpDate; getDelta resumes, runs
\* computeAndUpdate and returns {delta, fetchingServer}.  A direct getDelta
\* call is then complete; inside syncTime the awaiting body is resumed later.
GetDeltaResolve(i, ntp, now) ==
  /\ calls[i].pc = "provider"
  /\ LET dt == ntp - now
         item == [dt |-> dt, ntp |-> ntp]
         ret == [delta |-> dt, fetchingServer |-> calls[i].fetchingServer]
     IN /\ historyDetails' =
             [historyDetails EXCEPT
                !.deltas = PushDelta(historyDetails.deltas, item),
                !.lastSyncTime = Some(now),
                !.lastNtpTime = Some(ntp)]
        /\ pushedDeltas' = Append(pushedDeltas, item)
        /\ IF calls[i].kind = "getDelta"
             THEN /\ calls' = Remove(calls, i)
                  /\ settled' = Some(Settlement(calls[i], "returned", Some(ret)))
             ELSE /\ calls' = [calls EXCEPT ![i].pc = "resolved"]
                  /\ settled' = settled
  /\ UNCHANGED <<ntpServers, limit, currentIndex, tickId, started,
                 rejections, syncTimeDone, pushedErrors,
                 queriedServers, timers, reply>>

\* Variant of GetDeltaReject: the wrapped error names the failover target.
GetDeltaRejectNamesTarget(i, cause) ==
  /\ calls[i].pc = "provider"
  /\ LET idx == NextIndex(currentIndex, Len(ntpServers))
         err == NtpClientError(cause, ServerAt(idx))
     IN /\ currentIndex' = idx
        /\ historyDetails' = [historyDetails EXCEPT
                                !.currentServer = ServerAt(idx)]
        /\ IF calls[i].kind = "getDelta"
             THEN /\ calls' = Remove(calls, i)
                  /\ settled' = Some(Settlement(calls[i], "raised", Some(err)))
             ELSE /\ calls' = [calls EXCEPT ![i].pc = "rejected",
                                            ![i].thrown = Some(err)]
                  /\ settled' = settled
  /\ rejections' = rejections + 1
  /\ UNCHANGED <<ntpServers, limit, tickId, started, syncTimeDone,
                 pushedDeltas, pushedErrors,
                 queriedServers, timers, reply>>

\* The provider rejects call i; getDelta's catch runs shiftServer and throws
\* the wrapped error, to the caller or into the awaiting syncTime.
GetDeltaReject(i, cause) ==
  /\ calls[i].pc = "provider"
  /\ LET idx == NextIndex(currentIndex, Len(ntpServers))
         err == NtpClientError(cause, calls[i].fetchingServer)
     IN /\ currentIndex' = idx
        /\ historyDetails' = [historyDetails EXCEPT
                                !.currentServer = ServerAt(idx)]
        /\ IF calls[i].kind = "getDelta"
             THEN /\ calls' = Remove(calls, i)
                  /\ settled' = Some(Settlement(calls[i], "raised", Some(err)))
             ELSE /\ calls' = [calls EXCEPT ![i].pc = "rejected",
                                            ![i].thrown = Some(err)]
                  /\ settled' = settled
  /\ rejections' = rejections + 1
  /\ UNCHANGED <<ntpServers, limit, tickId, started, syncTimeDone,
                 pushedDeltas, pushedErrors,
                 queriedServers, timers, reply>>

\* Variant of SyncTimeResolve: the error flag is not lowered.
SyncTimeResolveKeepsErrorState(i) ==
  /\ calls[i].pc = "resolved"
  /\ historyDetails' = [historyDetails EXCEPT
                          !.currentConsecutiveErrorCount = 0]
  /\ calls' = Remove(calls, i)
  /\ settled' = Some(Settlement(calls[i], "returned", Some(TRUE)))
  /\ syncTimeDone' = syncTimeDone + 1
  /\ UNCHANGED <<ntpServers, limit, currentIndex, tickId, started,
                 rejections, pushedDeltas, pushedErrors,
                 queriedServers, timers, reply>>

\* Variant of SyncTimeResolve: a success also clears lastError.
SyncTimeResolveClearsLastError(i) ==
  /\ calls[i].pc = "resolved"
  /\ historyDetails' = [historyDetails EXCEPT
                          !.currentConsecutiveErrorCount = 0,
                          !.isInErrorState = FALSE,
                          !.lastError = Null]
  /\ calls' = Remove(calls, i)
  /\ settled' = Some(Settlement(calls[i], "returned", Some(TRUE)))
  /\ syncTimeDone' = syncTimeDone + 1
  /\ UNCHANGED <<ntpServers, limit, currentIndex, tickId, started,
                 rejections, pushedDeltas, pushedErrors,
                 queriedServers, timers, reply>>

\* syncTime after `await this.getDelta()` fulfilled: lines 121-123.
SyncTimeResolve(i) ==
  /\ calls[i].pc = "resolved"
  /\ historyDetails' = [historyDetails EXCEPT
                          !.currentConsecutiveErrorCount = 0,
                          !.isInErrorState = FALSE]
  /\ calls' = Remove(calls, i)
  /\ settled' = Some(Settlement(calls[i], "returned", Some(TRUE)))
  /\ syncTimeDone' = syncTimeDone + 1
  /\ UNCHANGED <<ntpServers, limit, currentIndex, tickId, started,
                 rejections, pushedDeltas, pushedErrors,
                 queriedServers, timers, reply>>

\* Variant of SyncTimeReject: lifetimeErrorCount is not incremented.
SyncTimeRejectNoLifetime(i, now) ==
  /\ calls[i].pc = "rejected"
  /\ LET err == calls[i].thrown[1]
         ed == [error |-> err.cause, server |-> err.server, time |-> now]
         cc == historyDetails.currentConsecutiveErrorCount + 1
         mx == historyDetails.maxConsecutiveErrorCount
     IN /\ historyDetails' =
             [historyDetails EXCEPT
                !.currentConsecutiveErrorCount = cc,
                !.errors = PushError(historyDetails.errors, ed),
                !.isInErrorState = TRUE,
                !.lastError = Some(ed),
                !.maxConsecutiveErrorCount = max(mx, cc)]
        /\ pushedErrors' = Append(pushedErrors, ed)
        /\ settled' = Some(Settlement(calls[i], "returned", Some(FALSE)))
  /\ calls' = Remove(calls, i)
  /\ syncTimeDone' = syncTimeDone + 1
  /\ UNCHANGED <<ntpServers, limit, currentIndex, tickId, started,
                 rejections, pushedDeltas,
                 queriedServers, timers, reply>>

\* Variant of SyncTimeReject: the caught error is thrown again.
SyncTimeRejectRethrows(i, now) ==
  /\ calls[i].pc = "rejected"
  /\ LET err == calls[i].thrown[1]
         ed == [error |-> err.cause, server |-> err.server, time |-> now]
         cc == historyDetails.currentConsecutiveErrorCount + 1
         mx == historyDetails.maxConsecutiveErrorCount
     IN /\ historyDetails' =
             [historyDetails EXCEPT
                !.currentConsecutiveErrorCount = cc,
                !.errors = PushError(historyDetails.errors, ed),
                !.isInErrorState = TRUE,
                !.lastError = Some(ed),
                !.lifetimeErrorCount = historyDetails.lifetimeErrorCount + 1,
                !.maxConsecutiveErrorCount = max(mx, cc)]
        /\ pushedErrors' = Append(pushedErrors, ed)
        /\ settled' = Some(Settlement(calls[i], "raised", Some(err)))
  /\ calls' = Remove(calls, i)
  /\ syncTimeDone' = syncTimeDone + 1
  /\ UNCHANGED <<ntpServers, limit, currentIndex, tickId, started,
                 rejections, pushedDeltas,
                 queriedServers, timers, reply>>

\* syncTime's catch block, lines 125-145: builds the record from the caught
\* error (name, message and stack abstracted to error), does the bookkeeping
\* and returns false.
SyncTimeReject(i, now) ==
  /\ calls[i].pc = "rejected"
  /\ LET err == calls[i].thrown[1]
         ed == [error |-> err.cause, server |-> err.server, time |-> now]
         cc == historyDetails.currentConsecutiveErrorCount + 1
         mx == historyDetails.maxConsecutiveErrorCount
     IN /\ historyDetails' =
             [historyDetails EXCEPT
                !.currentConsecutiveErrorCount = cc,
                !.errors = PushError(historyDetails.errors, ed),
                !.isInErrorState = TRUE,
                !.lastError = Some(ed),
                !.lifetimeErrorCount = historyDetails.lifetimeErrorCount + 1,
                !.maxConsecutiveErrorCount = max(mx, cc)]
        /\ pushedErrors' = Append(pushedErrors, ed)
        /\ settled' = Some(Settlement(calls[i], "returned", Some(FALSE)))
  /\ calls' = Remove(calls, i)
  /\ syncTimeDone' = syncTimeDone + 1
  /\ UNCHANGED <<ntpServers, limit, currentIndex, tickId, started,
                 rejections, pushedDeltas,
                 queriedServers, timers, reply>>

\* Variant of CallGetTime: reading the time also drops the oldest sample.
CallGetTimeShifts(now) ==
  /\ reply' = Some([op |-> "getTime", now |-> now,
                    value |-> getTime(historyDetails, now)])
  /\ historyDetails' = [historyDetails EXCEPT !.deltas = Shift(@)]
  /\ UNCHANGED <<ntpServers, limit, currentIndex, tickId,
                 calls, settled, started, rejections, syncTimeDone,
                 pushedDeltas, pushedErrors, queriedServers, timers>>

\* A caller invokes getTime(); reply is what it returns, with the clock
\* value it read.
CallGetTime(now) ==
  /\ reply' = Some([op |-> "getTime", now |-> now,
                    value |-> getTime(historyDetails, now)])
  /\ UNCHANGED <<ntpServers, limit, currentIndex, tickId, historyDetails,
                 calls, settled, started, rejections, syncTimeDone,
                 pushedDeltas, pushedErrors, queriedServers, timers>>

\* Variant of CallGetHistory: the engine's own object is returned.
CallGetHistoryLive ==
  /\ reply' = Some([op |-> "getHistory", live |-> TRUE, written |-> FALSE,
                    value |-> historyDetails])
  /\ UNCHANGED <<ntpServers, limit, currentIndex, tickId, historyDetails,
                 calls, settled, started, rejections, syncTimeDone,
                 pushedDeltas, pushedErrors, queriedServers, timers>>

\* A caller invokes getHistory(); reply is the object it returns: value is
\* its content, live says whether it is the engine's own object rather than
\* a separate one, written whether the caller has written into it.
CallGetHistory ==
  /\ reply' = Some([op |-> "getHistory", live |-> FALSE, written |-> FALSE,
                    value |-> getHistory(historyDetails)])
  /\ UNCHANGED <<ntpServers, limit, currentIndex, tickId, historyDetails,
                 calls, settled, started, rejections, syncTimeDone,
                 pushedDeltas, pushedErrors, queriedServers, timers>>

\* The caller writes into the object getHistory returned: into the engine's
\* state when that object is the engine's own, into the caller's copy
\* otherwise.
MutateSnapshot ==
  /\ reply # Null
  /\ reply[1].op = "getHistory"
  /\ ~reply[1].written
  /\ IF reply[1].live
       THEN /\ historyDetails' = Scribble(historyDetails)
            /\ reply' = Some([reply[1] EXCEPT !.written = TRUE])
       ELSE /\ historyDetails' = historyDetails
            /\ reply' = Some([reply[1] EXCEPT !.written = TRUE,
                                              !.value = Scribble(@)])
  /\ UNCHANGED <<ntpServers, limit, currentIndex, tickId,
                 calls, settled, started, rejections, syncTimeDone,
                 pushedDeltas, pushedErrors, queriedServers, timers>>

\* The scheduler is asked to start: startTick(). timers counts the
\* intervals created so far (none is ever cleared); reply tells whether
\* this call created one.
StartTick ==
  /\ tickId' = startTick(tickId)
  /\ timers' = timers + (IF startTick(tickId) # tickId THEN 1 ELSE 0)
  /\ reply' = Some([op |-> "startTick", created |-> startTick(tickId) # tickId])
  /\ UNCHANGED <<ntpServers, limit, currentIndex, historyDetails,
                 calls, settled, started, rejections, syncTimeDone,
                 pushedDeltas, pushedErrors, queriedServers>>

Next ==
  \/ CallGetDelta
  \/ CallSyncTime
  \/ Tick
  \/ \E i \in 1..Len(calls), ntp \in NtpTimes, now \in Times :
       GetDeltaResolve(i, ntp, now)
  \/ \E i \in 1..Len(calls), cause \in Causes : GetDeltaReject(i, cause)
  \/ \E i \in 1..Len(calls) : SyncTimeResolve(i)
  \/ \E i \in 1..Len(calls), now \in Times : SyncTimeReject(i, now)

Spec == Init /\ [][Next]_vars

\* The provider settles a pending request: it answers or, at the latest
\* when syncTimeout expires, rejects.
ProviderAnswers ==
  \E i \in 1..Len(calls), ntp \in NtpTimes, now \in Times :
    GetDeltaResolve(i, ntp, now)
ProviderRejects ==
  \E i \in 1..Len(calls), cause \in Causes : GetDeltaReject(i, cause)
ProviderResponds == ProviderAnswers \/ ProviderRejects

\* A syncTime whose getDelta has settled resumes.
SyncTimeResumes ==
  \/ \E i \in 1..Len(calls) : SyncTimeResolve(i)
  \/ \E i \in 1..Len(calls), now \in Times : SyncTimeReject(i, now)

\* The engine left to itself: the creation-time sync and the interval.  The
\* interval fires while it is set, the provider settles every request, and a
\* settled promise's continuation runs.
NextScheduled ==
  \/ Tick
  \/ ProviderAnswers
  \/ ProviderRejects
  \/ SyncTimeResumes

SpecScheduled ==
  /\ Init
  /\ [][NextScheduled]_vars
  /\ WF_vars(Tick)
  /\ WF_vars(ProviderResponds)
  /\ WF_vars(SyncTimeResumes)

\* A provider that rejects every request: a total outage, with the same
\* scheduling.
SyncTimeCatches ==
  \E i \in 1..Len(calls), now \in Times : SyncTimeReject(i, now)

NextOutage ==
  \/ CallGetDelta
  \/ CallSyncTime
  \/ Tick
  \/ ProviderRejects
  \/ SyncTimeCatches

SpecOutage ==
  /\ Init
  /\ [][NextOutage]_vars
  /\ WF_vars(Tick)
  /\ WF_vars(ProviderRejects)
  /\ WF_vars(SyncTimeCatches)

\* The engine together with a caller that reads it between attempts.
NextApi ==
  \/ Next /\ started' <= MaxObserved
  \/ \E now \in Times : CallGetTime(now)
  \/ CallGetHistory
  \/ MutateSnapshot
  \/ StartTick

SpecApi == Init /\ [][NextApi]_vars

\* getTime as a function of the samples: an engine with room for MaxSamples
\* samples and one server, after direct getDelta calls that were answered
\* with the offsets of samples while the local clock read 0.
InitGetTime ==
  \E samples \in UNION {[1..k -> Offsets] : k \in 0..MaxSamples} :
    LET n == Len(samples)
        items == [j \in 1..n |-> [dt |-> samples[j], ntp |-> samples[j]]]
        server == ServerList(1)[1]
        call == NewCall("getDelta", "manual", [currentServer |-> server])
    IN /\ ntpServers = ServerList(1)
       /\ limit = MaxSamples
       /\ currentIndex = 0
       /\ tickId = 0
       /\ timers = 0
       /\ historyDetails =
            [currentConsecutiveErrorCount |-> 0,
             currentServer |-> server,
             deltas |-> items,
             errors |-> <<>>,
             isInErrorState |-> FALSE,
             lastSyncTime |-> IF n = 0 THEN Null ELSE Some(0),
             lastNtpTime |-> IF n = 0 THEN Null ELSE Some(items[n].ntp),
             lastError |-> Null,
             lifetimeErrorCount |-> 0,
             maxConsecutiveErrorCount |-> 0]
       /\ calls = <<>>
       /\ settled = IF n = 0 THEN Null
                    ELSE Some(Settlement(call, "returned",
                                Some([delta |-> items[n].dt,
                                      fetchingServer |-> server])))
       /\ started = n
       /\ rejections = 0
       /\ syncTimeDone = 0
       /\ pushedDeltas = items
       /\ pushedErrors = <<>>
       /\ queriedServers = IF n = 0 THEN {} ELSE {server}
       /\ reply = Null

NextGetTime == \E now \in Times : CallGetTime(now)

SpecGetTime == InitGetTime /\ [][NextGetTime]_vars

\* ------------------------------------------------------------ vocabulary
Min(a, b) == IF a <= b THEN a ELSE b

\* The last n items of a log, oldest first.
LastN(log, n) == SubSeq(log, Len(log) - n + 1, Len(log))

\* Positions of the calls in flight.
CallIds == 1..Len(calls)

\* Call i completes in this step: it leaves the calls in flight.
Completes(i) == calls' = Remove(calls, i)

\* --------------------------------------------------------------- claims
\* C1: with historyLimit >= 1, deltas and errors never hold more than
\* historyLimit entries and each equals, oldest first, the last
\* min(n, historyLimit) of the n items pushed into it so far.
C1_BoundedFifo ==
  limit >= 1 =>
    /\ Len(historyDetails.deltas) <= limit
    /\ Len(historyDetails.errors) <= limit
    /\ historyDetails.deltas =
         LastN(pushedDeltas, Min(Len(pushedDeltas), limit))
    /\ historyDetails.errors =
         LastN(pushedErrors, Min(Len(pushedErrors), limit))

\* C1 witness: with room for two, a third error record has pushed out the
\* oldest one, and the two kept differ.
C1_Witness ==
  /\ limit = 2
  /\ Len(pushedErrors) = 3
  /\ Len(historyDetails.errors) = 2
  /\ historyDetails.errors[1] # historyDetails.errors[2]
  /\ historyDetails.errors[1] = pushedErrors[2]

\* C2: with historyLimit = 0 both deltas and errors are empty in every
\* reachable state.
C2_EmptyWhenLimitZero ==
  limit = 0 => historyDetails.deltas = <<>> /\ historyDetails.errors = <<>>

\* C5: with N > 1 servers the current index is (0 + k) mod N after k failed
\* attempts, overlapped or not; with N = 1 it stays where it started.
C5_RoundRobin ==
  /\ Len(ntpServers) > 1 => currentIndex = rejections % Len(ntpServers)
  /\ Len(ntpServers) = 1 => currentIndex = 0

\* C5 witness: over two servers, two attempts that queried the first server
\* together have failed, the cursor is back at index 0, and a third attempt
\* against that server is failing too.
C5_Witness ==
  /\ Len(ntpServers) = 2
  /\ rejections = 2
  /\ currentIndex = 0
  /\ Len(calls) = 3
  /\ \A i \in CallIds : calls[i].queried = ntpServers[1]
  /\ calls[1].pc = "rejected" /\ calls[2].pc = "rejected"

\* C9: consecutiveErrorCount <= maxConsecutiveErrorCount <= lifetimeErrorCount
\* in every reachable state.
C9_CounterOrder ==
  /\ historyDetails.currentConsecutiveErrorCount
       <= historyDetails.maxConsecutiveErrorCount
  /\ historyDetails.maxConsecutiveErrorCount
       <= historyDetails.lifetimeErrorCount

\* C9 witness: a failure, a success and a failure again, so that
\* maxConsecutiveErrorCount has fallen behind lifetimeErrorCount.
C9_Witness ==
  /\ historyDetails.lifetimeErrorCount = 2
  /\ historyDetails.maxConsecutiveErrorCount = 1
  /\ historyDetails.currentConsecutiveErrorCount = 1
  /\ Len(pushedDeltas) = 1

\* C10: while the provider has failed every call and historyLimit >= 1, after
\* k completed syncTime calls lifetimeErrorCount, consecutiveErrorCount and
\* maxConsecutiveErrorCount are all k, errors holds min(k, historyLimit)
\* records, deltas is empty and the syncTime call that completed last
\* returned false instead of raising.
C10_TotalOutage ==
  (limit >= 1 /\ pushedDeltas = <<>>) =>
    LET k == syncTimeDone
    IN /\ historyDetails.lifetimeErrorCount = k
       /\ historyDetails.currentConsecutiveErrorCount = k
       /\ historyDetails.maxConsecutiveErrorCount = k
       /\ Len(historyDetails.errors) = Min(k, limit)
       /\ historyDetails.deltas = <<>>
       /\ (settled # Null /\ settled[1].kind = "syncTime") =>
            /\ settled[1].status = "returned"
            /\ settled[1].value = Some(FALSE)

\* C10 witness: three syncTime calls and nothing else, all failed and
\* completed, with a history limit of 2; the records name the servers in
\* round-robin order, so each call started after the one before had failed.
C10_Witness ==
  /\ limit = 2
  /\ Len(ntpServers) = 2
  /\ started = 3 /\ syncTimeDone = 3 /\ rejections = 3
  /\ pushedDeltas = <<>>
  /\ Len(historyDetails.errors) = 2
  /\ pushedErrors[1].server = ntpServers[1]
  /\ pushedErrors[2].server = ntpServers[2]
  /\ pushedErrors[3].server = ntpServers[1]

\* This step records a failure of the attempt of call i.
Recorded(i) ==
  /\ historyDetails'.currentConsecutiveErrorCount
       = historyDetails.currentConsecutiveErrorCount + 1
  /\ historyDetails'.lifetimeErrorCount
       = historyDetails.lifetimeErrorCount + 1
  /\ historyDetails'.isInErrorState
  /\ historyDetails'.lastError # Null
  /\ historyDetails'.lastError[1].server = calls[i].queried
  /\ pushedErrors' = Append(pushedErrors, historyDetails'.lastError[1])
  /\ Len(historyDetails'.errors) >= 1
  /\ historyDetails'.errors[Len(historyDetails'.errors)]
       = historyDetails'.lastError[1]

\* This step leaves the error bookkeeping alone.
ErrorBookkeepingUnchanged ==
  /\ historyDetails'.currentConsecutiveErrorCount
       = historyDetails.currentConsecutiveErrorCount
  /\ historyDetails'.lifetimeErrorCount = historyDetails.lifetimeErrorCount
  /\ historyDetails'.maxConsecutiveErrorCount
       = historyDetails.maxConsecutiveErrorCount
  /\ historyDetails'.isInErrorState = historyDetails.isInErrorState
  /\ historyDetails'.lastError = historyDetails.lastError
  /\ historyDetails'.errors = historyDetails.errors
  /\ pushedErrors' = pushedErrors

\* Call i completes in this step and its attempt failed: a direct getDelta
\* whose provider call is rejected, or a syncTime resuming in its catch.
CompletesFailed(i) ==
  /\ Completes(i)
  /\ \/ calls[i].pc = "rejected"
     \/ calls[i].pc = "provider" /\ rejections' = rejections + 1

\* Call i completes in this step and its attempt succeeded: a direct getDelta
\* whose provider call is answered, or a syncTime resuming after its await.
CompletesSucceeded(i) ==
  /\ Completes(i)
  /\ \/ calls[i].pc = "resolved"
     \/ calls[i].pc = "provider" /\ rejections' = rejections

SuccessStep(i) ==
  \/ CompletesSucceeded(i)
  \/ /\ calls[i].pc = "provider"
     /\ calls' = [calls EXCEPT ![i].pc = "resolved"]

\* C6: a successful attempt changes neither currentIndex nor the exposed
\* currentServer, nor errors, lastError, lifetimeErrorCount or
\* maxConsecutiveErrorCount.
C6_SuccessFrame ==
  [][\A i \in CallIds :
       SuccessStep(i) =>
         /\ currentIndex' = currentIndex
         /\ historyDetails'.currentServer = historyDetails.currentServer
         /\ historyDetails'.errors = historyDetails.errors
         /\ historyDetails'.lastError = historyDetails.lastError
         /\ historyDetails'.lifetimeErrorCount
              = historyDetails.lifetimeErrorCount
         /\ historyDetails'.maxConsecutiveErrorCount
              = historyDetails.maxConsecutiveErrorCount]_vars

\* C6 witness: after a failover to the second server and with the error on
\* record, a syncTime call has succeeded and completed.
C6_Witness ==
  /\ currentIndex = 1
  /\ historyDetails.lastError # Null
  /\ Len(historyDetails.errors) >= 1
  /\ Len(pushedDeltas) >= 1
  /\ settled # Null
  /\ settled[1].kind = "syncTime"
  /\ settled[1].value = Some(TRUE)

\* C7: syncTime never raises: when a syncTime call completes it returns a
\* boolean, true exactly when its attempt succeeded and false exactly when it
\* failed.
C7_SyncTimeNeverRaises ==
  [][\A i \in CallIds :
       (Completes(i) /\ calls[i].kind = "syncTime") =>
         /\ settled' # Null
         /\ settled'[1].kind = "syncTime"
         /\ settled'[1].status = "returned"
         /\ calls[i].pc = "resolved" => settled'[1].value = Some(TRUE)
         /\ calls[i].pc = "rejected" => settled'[1].value = Some(FALSE)
         /\ calls[i].pc \in {"resolved", "rejected"}]_vars

\* C7 witness: a syncTime call has returned false after an earlier attempt
\* had succeeded.
C7_Witness ==
  /\ settled # Null
  /\ settled[1].kind = "syncTime"
  /\ settled[1].status = "returned"
  /\ settled[1].value = Some(FALSE)
  /\ syncTimeDone = 2
  /\ historyDetails.lastSyncTime # Null
  /\ historyDetails.lifetimeErrorCount = 1

\* C8: the error a failed getDelta throws, and the record syncTime builds
\* from it, name the server that call queried when it started, whatever
\* other attempts did to currentIndex meanwhile.
C8_ErrorNamesQueriedServer ==
  [][\A i \in CallIds :
       /\ (calls[i].pc = "provider" /\ Len(calls') = Len(calls)
             /\ calls'[i].pc = "rejected") =>
            calls'[i].thrown[1].server = calls[i].queried
       /\ (calls[i].pc = "provider" /\ CompletesFailed(i)) =>
            /\ settled'[1].status = "raised"
            /\ settled'[1].value[1].server = calls[i].queried
       /\ (calls[i].pc = "rejected" /\ Completes(i)) =>
            /\ historyDetails'.lastError[1].server = calls[i].queried
            /\ pushedErrors'[Len(pushedErrors')].server = calls[i].queried
            /\ historyDetails'.errors[Len(historyDetails'.errors)].server
                 = calls[i].queried]_vars

\* C8 witness: three attempts all queried the first of two servers, so they
\* were in flight together; all failed, the cursor has moved on to the second
\* server, and the error on record and the error raised last name the first.
C8_Witness ==
  /\ Len(ntpServers) = 2
  /\ started = 3 /\ rejections = 3 /\ calls = <<>>
  /\ historyDetails.currentServer = ntpServers[2]
  /\ Len(pushedErrors) = 2
  /\ \A j \in 1..2 : pushedErrors[j].server = ntpServers[1]
  /\ historyDetails.lastError[1].server = ntpServers[1]
  /\ settled # Null
  /\ settled[1].status = "raised"
  /\ settled[1].value[1].server = ntpServers[1]

\* |x|
Abs(x) == IF x >= 0 THEN x ELSE -x

\* The offsets of the samples in deltas, oldest first.
OffsetsOf(deltas) == [j \in 1..Len(deltas) |-> deltas[j].dt]

\* C11: getTime returns now + averageOffset, where averageOffset is 0 for an
\* empty deltas and otherwise an integer nearest to sum / count; for the
\* offsets 100, -50, 30 it is 27.
C11_GetTimeAverage ==
  (reply # Null /\ reply[1].op = "getTime") =>
    LET n == Len(historyDetails.deltas)
        sum == SumDt(historyDetails.deltas)
        avg == reply[1].value - reply[1].now
    IN /\ n = 0 => avg = 0
       /\ n > 0 => 2 * Abs(sum - avg * n) <= n
       /\ OffsetsOf(historyDetails.deltas) = <<100, -50, 30>> => avg = 27

\* C11 witness: getTime has been applied to the samples 100, -50, 30 and
\* returned 27 more than the clock read.
C11_Witness ==
  /\ OffsetsOf(historyDetails.deltas) = <<100, -50, 30>>
  /\ reply # Null
  /\ reply[1].op = "getTime"
  /\ reply[1].now = 1
  /\ reply[1].value = 28


\* Everything but what the caller holds: the engine's fields, the timer,
\* the attempts in flight and the run's bookkeeping.
engine ==
  <<ntpServers, limit, currentIndex, tickId, timers, historyDetails, calls,
    settled, started, rejections, syncTimeDone, pushedDeltas, pushedErrors,
    queriedServers>>

\* The step is a call of getTime or getHistory handing back a fresh result.
QueryStep ==
  /\ reply' # Null
  /\ reply' # reply
  /\ \/ reply'[1].op = "getTime"
     \/ reply'[1].op = "getHistory" /\ ~reply'[1].written

\* C12: getTime and getHistory are pure reads: in any reachable state,
\* attempts in flight or not, a call leaves every field of historyDetails,
\* currentIndex, the timer handle and everything else of the engine
\* unchanged.
C12_QueriesArePure == [][QueryStep => UNCHANGED engine]_vars

C12_Witness ==
  /\ Len(calls) > 0
  /\ reply # Null
  /\ reply[1].op = "getHistory"
  /\ ~reply[1].written
  /\ Len(historyDetails.deltas) > 0

\* What the object handed out by getHistory holds now.
SnapshotContent ==
  IF reply[1].live THEN historyDetails ELSE reply[1].value

HoldsSnapshot == reply # Null /\ reply[1].op = "getHistory"

\* C13: the snapshot getHistory returns equals historyDetails as of the
\* call; a later step of an attempt never changes it; a write of the caller
\* into it changes nothing of the engine.
C13_SnapshotIndependent ==
  [][/\ (QueryStep /\ reply'[1].op = "getHistory")
          => SnapshotContent' = historyDetails
     /\ (HoldsSnapshot /\ reply' = reply)
          => SnapshotContent' = SnapshotContent
     /\ (HoldsSnapshot /\ reply' # reply /\ reply'[1].op = "getHistory"
           /\ reply'[1].written)
          => UNCHANGED engine]_vars

C13_Witness ==
  /\ HoldsSnapshot
  /\ reply[1].written
  /\ reply[1].value # historyDetails
  /\ reply[1].value = Scribble(reply[1].value)
  /\ Len(historyDetails.deltas) + Len(historyDetails.errors) > 0

\* C14: at most one interval exists at any time, and a start asked for
\* while one is active creates none and changes nothing of the engine.
C14_StartIdempotent ==
  /\ timers <= 1
  /\ [][/\ timers' <= 1
        /\ (tickId # 0 /\ reply' # Null /\ reply' # reply
              /\ reply'[1].op = "startTick")
             => UNCHANGED engine]_vars

C14_Witness ==
  /\ reply # Null
  /\ reply[1].op = "startTick"
  /\ ~reply[1].created
  /\ timers = 1
  /\ tickId # 0

\* C15: the server list being non-empty, currentIndex always lies in
\* 0 .. ntpServers.length - 1 and historyDetails.currentServer is the entry
\* of the list at that index.
C15_IndexInRange ==
  Len(ntpServers) > 0 =>
    /\ currentIndex \in 0..(Len(ntpServers) - 1)
    /\ historyDetails.currentServer = ntpServers[currentIndex + 1]

\* C15 witness: over two servers the cursor has wrapped around and moved on.
C15_Witness ==
  /\ Len(ntpServers) = 2
  /\ rejections = 3
  /\ currentIndex = 1
  /\ historyDetails.currentServer = ntpServers[2]

\* The index of server sv in the list, counted from 0.
IndexOf(sv) == CHOOSE k \in 0..(Len(ntpServers) - 1) : ntpServers[k + 1] = sv

\* Moving the cursor k places on from idx.
Advance(idx, k) ==
  IF Len(ntpServers) > 1 THEN (idx + k) % Len(ntpServers) ELSE idx

\* C16: attempts overlap.  When the only two attempts that have failed so
\* far both queried the same server, both are still in syncTime with
\* getDelta's error in hand, then both errors name that server and the
\* cursor stands two places past it; likewise the two error records once
\* they are the only ones logged.
C16_OverlapSameServer ==
  /\ \A i, j \in CallIds :
       (/\ i < j
        /\ calls[i].pc = "rejected" /\ calls[j].pc = "rejected"
        /\ calls[i].queried = calls[j].queried
        /\ rejections = 2)
       => /\ calls[i].thrown[1].server = calls[i].queried
          /\ calls[j].thrown[1].server = calls[i].queried
          /\ currentIndex = Advance(IndexOf(calls[i].queried), 2)
  /\ (/\ rejections = 2
      /\ Len(pushedErrors) = 2
      /\ Cardinality(queriedServers) = 1)
     => /\ pushedErrors[1].server = ntpServers[1]
        /\ pushedErrors[2].server = ntpServers[1]
        /\ currentIndex = Advance(0, 2)

\* C16 witness: the creation-time sync or a manual syncTime, and a tick, are
\* in flight together, both failed against the first of two servers.
C16_Witness ==
  /\ Len(ntpServers) = 2
  /\ Len(calls) = 2
  /\ calls[1].by \in {"ctor", "manual"}
  /\ calls[2].by = "tick"
  /\ calls[1].pc = "rejected" /\ calls[2].pc = "rejected"
  /\ calls[1].queried = ntpServers[1]
  /\ calls[2].queried = ntpServers[1]
  /\ calls[1].thrown[1].server = ntpServers[1]
  /\ calls[2].thrown[1].server = ntpServers[1]
  /\ rejections = 2
  /\ currentIndex = 0

\* A step of the failure path of call i: getDelta's catch on the provider's
\* rejection, or syncTime's catch.
FailureStep(i) ==
  \/ CompletesFailed(i)
  \/ /\ calls[i].pc = "provider"
     /\ Len(calls') = Len(calls)
     /\ calls'[i].pc = "rejected"

\* C18: lastError changes only in the catch of a failed syncTime, to a
\* record, and no step of a successful attempt touches it; lastSyncTime and
\* lastNtpTime change only when an attempt succeeds, and no step of a failed
\* attempt touches them.
C18_LastMarkers ==
  [][/\ historyDetails'.lastError # historyDetails.lastError
          => /\ historyDetails'.lastError # Null
             /\ \E i \in CallIds : calls[i].pc = "rejected" /\ Completes(i)
     /\ \A i \in CallIds :
          SuccessStep(i)
            => historyDetails'.lastError = historyDetails.lastError
     /\ (\/ historyDetails'.lastSyncTime # historyDetails.lastSyncTime
         \/ historyDetails'.lastNtpTime # historyDetails.lastNtpTime)
          => /\ historyDetails'.lastSyncTime # Null
             /\ historyDetails'.lastNtpTime # Null
             /\ \E i \in CallIds :
                  /\ calls[i].pc = "provider"
                  /\ SuccessStep(i)
                  /\ pushedDeltas' # pushedDeltas
     /\ \A i \in CallIds :
          FailureStep(i)
            => /\ historyDetails'.lastSyncTime = historyDetails.lastSyncTime
               /\ historyDetails'.lastNtpTime = historyDetails.lastNtpTime
    ]_vars

\* C18 witness: a success has completed after a failure was recorded, and a
\* further failure after that success.
C18_Witness ==
  /\ historyDetails.lastError # Null
  /\ historyDetails.lastSyncTime # Null
  /\ historyDetails.lastNtpTime # Null
  /\ Len(pushedErrors) = 2
  /\ Len(pushedDeltas) = 1
  /\ historyDetails.lifetimeErrorCount = 2
  /\ historyDetails.currentConsecutiveErrorCount = 1

\* C20: isInErrorState is true exactly when currentConsecutiveErrorCount is
\* greater than 0.
C20_ErrorStateIffCount ==
  historyDetails.isInErrorState
    <=> historyDetails.currentConsecutiveErrorCount > 0

\* C20 witness: two syncTime attempts in flight together, one failed and
\* recorded, the other succeeded and reset the count.
C20_Witness ==
  /\ historyDetails.lifetimeErrorCount = 1
  /\ historyDetails.currentConsecutiveErrorCount = 0
  /\ ~historyDetails.isInErrorState
  /\ syncTimeDone = 2
  /\ Cardinality(queriedServers) = 1
  /\ Len(ntpServers) = 2
  /\ historyDetails.currentServer = ntpServers[2]

\* C17: a failed scheduled attempt never stops the loop.  The interval, once
\* set, is never cleared, and with the timer firing and the provider
\* settling every request the scheduled attempts go on being started and
\* completed, up to the number of attempts a run is followed for, whatever
\* their outcomes.
C17_LoopKeepsRunning ==
  /\ [][tickId # 0 => tickId' = tickId]_vars
  /\ (tickId # 0) ~> (started = MaxAttempts /\ syncTimeDone = MaxAttempts)

\* C17 witness: the timer is set and every attempt of the run has failed
\* and completed.
C17_Witness ==
  /\ tickId # 0
  /\ started = MaxAttempts
  /\ syncTimeDone = MaxAttempts
  /\ rejections = MaxAttempts
  /\ historyDetails.lifetimeErrorCount = MaxAttempts
  /\ calls = <<>>

\* The configured servers as a set.
Servers == {ntpServers[k] : k \in 1..Len(ntpServers)}

\* C19 as stated: with more than one server and every request failing, every
\* server gets queried, however the attempts interleave: each time the
\* cursor has come full circle with nothing in flight, every server has
\* been queried.
C19_EveryServerQueried ==
  (/\ Len(ntpServers) > 1
   /\ rejections > 0
   /\ currentIndex = 0
   /\ calls = <<>>)
  => queriedServers = Servers

\* C19: with more than one server, the timer set and every request failing,
\* every server is eventually queried unless attempts overlap: the run
\* reaches a state where every server has been queried or where two
\* attempts are in flight at once.
C19_QueriedUnlessOverlap ==
  (Len(ntpServers) > 1 /\ tickId # 0)
    => <>(queriedServers = Servers \/ Len(calls) > 1)

\* C19 witness: over two servers, two attempts failed one after the other,
\* the first against the first server and the second against the second.
C19_Witness ==
  /\ Len(ntpServers) = 2
  /\ tickId # 0
  /\ queriedServers = Servers
  /\ rejections = 2
  /\ Len(pushedErrors) = 2
  /\ pushedErrors[1].server = ntpServers[1]
  /\ pushedErrors[2].server = ntpServers[2]
  /\ calls = <<>>
====
